---- MODULE Spec2Model ----
(***************************************************************************)
(* Model of the disposal primitives of                                     *)
(* packages/common/src/base/common/lifecycle.ts: the dispose() function,   *)
(* combinedDisposable, toDisposable, DisposableStore and Disposable.       *)
(*                                                                         *)
(* A user teardown function fn is arbitrary code: how often it has been    *)
(* run is recorded in fnCalls, and whether it throws in a given call is an *)
(* input of the operation (the set thr of functions that throw).           *)
(***************************************************************************)
EXTENDS Integers, Sequences, FiniteSets, TLC

\* ------------------------------------------------------------------ bounds
\* Number of store operations in one behaviour of Spec.
MaxOps == 4
\* Number of combinator calls in one behaviour of SpecFn.
MaxFnOps == 2
\* Number of store operations in one behaviour of SpecReentrant.
MaxReentrantOps == 3
\* Number of calls in one behaviour of SpecTracking.
MaxTrackOps == 4
\* Number of calls on the TimeoutTimer in one behaviour of SpecTimer.
MaxTimerOps == 4
\* Number of callbacks the host runs while a runner keeps re-arming the timer.
MaxFires == 3
\* Largest of the short collections binarySearch2 is run on, and the number
\* of loop iterations followed in one search.
\* Number of reads of value and dispose() calls in one behaviour of SpecIdle.
MaxIdleOps == 5
MaxSearchLen == 3
MaxProbes == 36

\* ------------------------------------------------------------------ units
\* u1..u3 are toDisposable(f1)..toDisposable(f3); k is
\* combinedDisposable(p1, p2) with p1 = toDisposable(g1), p2 = toDisposable(g2).
\* k exclusively owns p1 and p2 (no shared ownership of a unit).
FnUnits == {"u1", "u2", "u3"}
PartUnits == {"p1", "p2"}
CombinedUnits == {"k"}
Units == FnUnits \cup PartUnits \cup CombinedUnits
Fns == {"f1", "f2", "f3", "g1", "g2"}

\* The falsy argument (undefined / null).
Undef == "undefined"
\* The DisposableStore c, the Disposable o and o's private _store.
StoreC == "c"
OwnerO == "o"
StoreO == "o._store"
Stores == {StoreC, StoreO}

\* The teardown function wrapped by a toDisposable unit.
FnOf(u) ==
    CASE u = "u1" -> "f1"
      [] u = "u2" -> "f2"
      [] u = "u3" -> "f3"
      [] u = "p1" -> "g1"
      [] u = "p2" -> "g2"

\* The array captured by combinedDisposable(...disposables).
Parts(u) == <<"p1", "p2">>

\* ----------------------------------------------------------------- errors
NoError == [name |-> "none", id |-> "none", errors |-> <<>>]
\* The error thrown by the teardown function f.
ErrorOf(f) == [name |-> "Error", id |-> f, errors |-> <<>>]
SelfError ==
    [name |-> "Error", id |-> "Cannot register a disposable on itself!", errors |-> <<>>]
MultiDisposeError(errors) ==
    [name |-> "MultiDisposeError", id |-> "none", errors |-> errors]

\* ------------------------------------------------------------------ state
VARIABLES
    toDispose,                  \* store -> its Set, in insertion order
    isDisposed,                 \* store -> its _isDisposed flag
    DISABLE_DISPOSED_WARNING,   \* the static flag of DisposableStore
    disposeCalls,               \* unit -> number of dispose() calls on it (capped by the budgets)
    fnCalls,                    \* teardown function -> number of times it ran
    lastOp,                     \* the last call made and what it did
    hist,                       \* what c.clear() last released, what c accepted since
    steps,                      \* calls made so far
    threwOnDispose,             \* store -> whether its first dispose() propagated an error
    behaviour,                  \* unit -> what its teardown calls on the store c
    nested,                     \* the calls the teardowns made during the last call
    build,                      \* TRACK_DISPOSABLES -> the units and the store of that build
    timer,                      \* the TimeoutTimer: its _token and _isDisposed
    timeouts,                   \* the host's timeouts: made, pending, cleared, run
    timerOp,                    \* the last call on the TimeoutTimer and how it ended
    search,                     \* the running binarySearch2 call: arguments, low, high, result
    idle                        \* the AbstractIdleValue: its fields, its idle handle, the last read

\* The state of the components an action of another component leaves alone.
reentrantVars == <<behaviour, nested>>
trackingVars == <<build>>
timerVars == <<timer, timeouts, timerOp>>
searchVars == <<search>>
idleVars == <<idle>>
rest == <<trackingVars, timerVars, searchVars, idleVars>>
others == <<reentrantVars, rest>>

vars == <<toDispose, isDisposed, DISABLE_DISPOSED_WARNING, disposeCalls, fnCalls,
          lastOp, hist, steps, threwOnDispose, others>>

\* A teardown that calls nothing on the store.
Plain == [call |-> "none", arg |-> "none"]
InitPlain ==
    /\ behaviour = [u \in FnUnits |-> Plain]
    /\ nested = <<>>
\* The units toDisposable() has made in the two builds of the module, the
\* one with TRACK_DISPOSABLES = TRUE and the one with FALSE.
NotMade == "not made"
NewBuild ==
    [handle |-> [u \in FnUnits |-> NotMade],
     toDispose |-> <<>>, isDisposed |-> FALSE,
     released |-> <<>>, errors |-> <<>>,
     marked |-> {}, pending |-> {}, reports |-> <<>>]
InitTracking == build = [track \in BOOLEAN |-> NewBuild]
\* Nothing has been called on the TimeoutTimer yet.
NoTimerOp == [op |-> "none", runner |-> "none", threw |-> FALSE]
\* new TimeoutTimer()
InitTimer ==
    /\ timer = [token |-> Undef, isDisposed |-> FALSE]
    /\ timeouts = [made |-> 0, pending |-> {}, cleared |-> {}, ran |-> <<>>]
    /\ timerOp = NoTimerOp
\* binarySearch2 has not been called.
InitSearch == search = [pc |-> "idle"]
\* No AbstractIdleValue has been constructed.
InitIdle == idle = [made |-> FALSE]
InitRest == InitTracking /\ InitTimer /\ InitSearch /\ InitIdle
InitOthers == InitPlain /\ InitRest

NoOp ==
    [op |-> "none", store |-> "none", arg |-> "none", kind |-> "none",
     wasDisposed |-> FALSE, input |-> <<>>, released |-> <<>>, calls |-> <<>>, thr |-> {}, threw |-> FALSE,
     error |-> NoError, ret |-> "none", warned |-> FALSE]

InitStore ==
    /\ toDispose = [s \in Stores |-> <<>>]
    /\ isDisposed = [s \in Stores |-> FALSE]
    /\ DISABLE_DISPOSED_WARNING = FALSE
    /\ disposeCalls = [u \in Units |-> 0]
    /\ fnCalls = [f \in Fns |-> 0]
    /\ lastOp = NoOp
    /\ hist = [cleared |-> FALSE, gone |-> {}, added |-> {}]
    /\ steps = 0
    /\ threwOnDispose = [s \in Stores |-> FALSE]

Init == InitStore /\ InitOthers

\* ---------------------------------------------------------------- helpers
Range(s) == {s[i] : i \in 1..Len(s)}
Count(x, s) == Cardinality({i \in 1..Len(s) : s[i] = x})

\* Set.prototype.add on an insertion-ordered Set.
SetAdd(s, t) == IF t \in Range(s) THEN s ELSE Append(s, t)

\* The teardown functions a dispose() of the units in s can reach.
RECURSIVE FnsUnder(_)
FnsUnder(s) ==
    IF s = <<>> THEN {}
    ELSE LET d == Head(s) IN
         (IF d = Undef THEN {}
          ELSE IF d \in CombinedUnits THEN FnsUnder(Parts(d))
          ELSE {FnOf(d)}) \cup FnsUnder(Tail(s))

\* All sequences over S of length at most n without a repeated element.
InjSeqs(S, n) ==
    {s \in UNION {[1..m -> S] : m \in 0..n} :
        \A i, j \in 1..Len(s) : i # j => s[i] # s[j]}

\* ------------------------------------------------- dispose and combinators
\* What one dispose() call did: top = the units the loop itself called
\* dispose() on, calls = every dispose() call made (nested ones included),
\* fns = the teardown functions run, each in order.
EmptyRun == [top |-> <<>>, calls |-> <<>>, fns |-> <<>>, errors |-> <<>>]

RECURSIVE unitDispose(_, _), disposeLoop(_, _, _), disposeIterable(_, _)

\* The object returned by toDisposable(fn): its dispose() runs fn().
toDisposable(u, thr) ==
    [calls |-> <<u>>,
     fns |-> <<FnOf(u)>>,
     error |-> IF FnOf(u) \in thr THEN ErrorOf(FnOf(u)) ELSE NoError]

\* The object returned by combinedDisposable(...): its dispose() is
\* dispose(disposables) on the captured array.
combinedDisposable(u, thr) ==
    LET r == disposeIterable(Parts(u), thr) IN
    [calls |-> <<u>> \o r.calls, fns |-> r.fns, error |-> r.error]

\* d.dispose() for a unit d.
unitDispose(d, thr) ==
    IF d \in CombinedUnits THEN combinedDisposable(d, thr) ELSE toDisposable(d, thr)

\* Mutant of loopStep: no try/catch, the first failure ends the releases.
loopStepNoCatch(acc, d, thr) ==
    IF d = Undef \/ acc.errors # <<>> THEN acc
    ELSE LET r == unitDispose(d, thr) IN
         [top |-> Append(acc.top, d),
          calls |-> acc.calls \o r.calls,
          fns |-> acc.fns \o r.fns,
          errors |-> IF r.error # NoError THEN Append(acc.errors, r.error)
                     ELSE acc.errors]

\* One iteration of the for loop of dispose(): a falsy element is skipped, a
\* failing d.dispose() is caught and its error pushed.
loopStep(acc, d, thr) ==
    IF d = Undef THEN acc
    ELSE LET r == unitDispose(d, thr) IN
         [top |-> Append(acc.top, d),
          calls |-> acc.calls \o r.calls,
          fns |-> acc.fns \o r.fns,
          errors |-> IF r.error # NoError THEN Append(acc.errors, r.error)
                     ELSE acc.errors]

disposeLoop(elems, thr, acc) ==
    IF elems = <<>> THEN acc
    ELSE disposeLoop(Tail(elems), thr, loopStep(acc, Head(elems), thr))

\* Mutant of thrown: only the first failure is surfaced.
thrownFirstOnly(errors) ==
    IF Len(errors) >= 1 THEN errors[1] ELSE NoError

\* What dispose() throws after the loop: the one error, a MultiDisposeError
\* for several, nothing (NoError) for none.
thrown(errors) ==
    IF Len(errors) = 1 THEN errors[1]
    ELSE IF Len(errors) > 1 THEN MultiDisposeError(errors)
    ELSE NoError

\* dispose(arg) for an iterable arg.
disposeIterable(elems, thr) ==
    LET r == disposeLoop(elems, thr, EmptyRun) IN
    [top |-> r.top, calls |-> r.calls, fns |-> r.fns, errors |-> r.errors,
     error |-> thrown(r.errors)]

\* The counters after the dispose() calls and teardown runs of one operation.
CountCalls(calls) == [u \in Units |-> disposeCalls[u] + Count(u, calls)]
CountFns(fns) == [f \in Fns |-> fnCalls[f] + Count(f, fns)]

\* ------------------------------------------------------- DisposableStore
\* The record of a call of op on store s with argument arg.
Op(op, s, arg) ==
    [NoOp EXCEPT !.op = op, !.store = s, !.arg = arg, !.wasDisposed = isDisposed[s]]

\* What the store operations may be handed: a unit, undefined, or the
\* receiver itself.
StoreUnits == FnUnits \cup CombinedUnits

\* Mutant of StoreAdd: the self check comes after the insertion.
StoreAddLateCheck(s, t, op) ==
    IF t = Undef THEN
        /\ lastOp' = [Op(op, s, t) EXCEPT !.ret = t]
        /\ UNCHANGED <<toDispose, isDisposed>>
    ELSE IF isDisposed[s] THEN
        /\ lastOp' = [Op(op, s, t) EXCEPT !.ret = t,
                                          !.warned = ~DISABLE_DISPOSED_WARNING]
        /\ UNCHANGED <<toDispose, isDisposed>>
    ELSE
        /\ toDispose' = [toDispose EXCEPT ![s] = SetAdd(@, t)]
        /\ lastOp' = IF t = s
                     THEN [Op(op, s, t) EXCEPT !.threw = TRUE, !.error = SelfError]
                     ELSE [Op(op, s, t) EXCEPT !.ret = t]
        /\ UNCHANGED isDisposed

\* Mutant of StoreAdd: the test of DISABLE_DISPOSED_WARNING is inverted.
StoreAddInvertedFlag(s, t, op) ==
    IF t = Undef THEN
        /\ lastOp' = [Op(op, s, t) EXCEPT !.ret = t]
        /\ UNCHANGED <<toDispose, isDisposed>>
    ELSE IF t = s THEN
        /\ lastOp' = [Op(op, s, t) EXCEPT !.threw = TRUE, !.error = SelfError]
        /\ UNCHANGED <<toDispose, isDisposed>>
    ELSE IF isDisposed[s] THEN
        /\ lastOp' = [Op(op, s, t) EXCEPT !.ret = t,
                                          !.warned = DISABLE_DISPOSED_WARNING]
        /\ UNCHANGED <<toDispose, isDisposed>>
    ELSE
        /\ toDispose' = [toDispose EXCEPT ![s] = SetAdd(@, t)]
        /\ lastOp' = [Op(op, s, t) EXCEPT !.ret = t]
        /\ UNCHANGED isDisposed

\* DisposableStore.add(t) on store s, entered through op.
StoreAdd(s, t, op) ==
    IF t = Undef THEN
        /\ lastOp' = [Op(op, s, t) EXCEPT !.ret = t]
        /\ UNCHANGED <<toDispose, isDisposed>>
    ELSE IF t = s THEN
        /\ lastOp' = [Op(op, s, t) EXCEPT !.threw = TRUE, !.error = SelfError]
        /\ UNCHANGED <<toDispose, isDisposed>>
    ELSE IF isDisposed[s] THEN
        /\ lastOp' = [Op(op, s, t) EXCEPT !.ret = t,
                                          !.warned = ~DISABLE_DISPOSED_WARNING]
        /\ UNCHANGED <<toDispose, isDisposed>>
    ELSE
        /\ toDispose' = [toDispose EXCEPT ![s] = SetAdd(@, t)]
        /\ lastOp' = [Op(op, s, t) EXCEPT !.ret = t]
        /\ UNCHANGED isDisposed

\* Mutant of StoreClear: no finally block, the Set keeps its units.
StoreClearKeep(s, thr, op) ==
    LET r == disposeIterable(toDispose[s], thr) IN
    /\ toDispose' = toDispose
    /\ disposeCalls' = CountCalls(r.calls)
    /\ fnCalls' = CountFns(r.fns)
    /\ lastOp' = [Op(op, s, "none") EXCEPT !.input = toDispose[s],
                                           !.released = r.top, !.calls = r.calls,
                                           !.thr = thr,
                                           !.threw = (r.error # NoError),
                                           !.error = r.error]

\* Mutant of StoreClear: the Set is emptied after dispose() returns, not in
\* a finally block, so a failing release leaves it as it was.
StoreClearNoFinally(s, thr, op) ==
    LET r == disposeIterable(toDispose[s], thr) IN
    /\ toDispose' = IF r.error # NoError THEN toDispose
                    ELSE [toDispose EXCEPT ![s] = <<>>]
    /\ disposeCalls' = CountCalls(r.calls)
    /\ fnCalls' = CountFns(r.fns)
    /\ lastOp' = [Op(op, s, "none") EXCEPT !.input = toDispose[s],
                                           !.released = r.top, !.calls = r.calls,
                                           !.thr = thr,
                                           !.threw = (r.error # NoError),
                                           !.error = r.error]

\* DisposableStore.clear() on store s, entered through op: dispose() of the
\* Set's values, and in the finally block the Set is emptied.
StoreClear(s, thr, op) ==
    LET r == disposeIterable(toDispose[s], thr) IN
    /\ toDispose' = [toDispose EXCEPT ![s] = <<>>]
    /\ disposeCalls' = CountCalls(r.calls)
    /\ fnCalls' = CountFns(r.fns)
    /\ lastOp' = [Op(op, s, "none") EXCEPT !.input = toDispose[s],
                                           !.released = r.top, !.calls = r.calls,
                                           !.thr = thr,
                                           !.threw = (r.error # NoError),
                                           !.error = r.error]

\* Mutant of StoreDispose: _isDisposed is never set.
StoreDisposeNoFlag(s, thr, op) ==
    IF isDisposed[s] THEN
        /\ lastOp' = Op(op, s, "none")
        /\ UNCHANGED <<toDispose, isDisposed, disposeCalls, fnCalls>>
    ELSE
        /\ UNCHANGED isDisposed
        /\ StoreClear(s, thr, op)

\* DisposableStore.dispose() on store s, entered through op.
StoreDispose(s, thr, op) ==
    IF isDisposed[s] THEN
        /\ lastOp' = Op(op, s, "none")
        /\ UNCHANGED <<toDispose, isDisposed, disposeCalls, fnCalls>>
    ELSE
        /\ isDisposed' = [isDisposed EXCEPT ![s] = TRUE]
        /\ StoreClear(s, thr, op)

\* c.add(t)
Add(t) ==
    /\ steps < MaxOps
    /\ StoreAdd(StoreC, t, "add")
    /\ hist' = IF t \in StoreUnits /\ ~isDisposed[StoreC]
               THEN [hist EXCEPT !.added = @ \cup {t}] ELSE hist
    /\ steps' = steps + 1
    /\ UNCHANGED <<DISABLE_DISPOSED_WARNING, disposeCalls, fnCalls, threwOnDispose, others>>

\* c.clear()
Clear(thr) ==
    /\ steps < MaxOps
    /\ StoreClear(StoreC, thr, "clear")
    /\ hist' = [cleared |-> TRUE, gone |-> Range(toDispose[StoreC]), added |-> {}]
    /\ steps' = steps + 1
    /\ UNCHANGED <<isDisposed, DISABLE_DISPOSED_WARNING, threwOnDispose, others>>

\* c.dispose()
Dispose(thr) ==
    /\ steps < MaxOps
    /\ StoreDispose(StoreC, thr, "dispose")
    /\ threwOnDispose' = IF isDisposed[StoreC] THEN threwOnDispose
                         ELSE [threwOnDispose EXCEPT ![StoreC] = lastOp'.threw]
    /\ steps' = steps + 1
    /\ UNCHANGED <<DISABLE_DISPOSED_WARNING, hist, others>>

\* ------------------------------------------------------------ Disposable
\* o._register(t)
Register(t) ==
    /\ steps < MaxOps
    /\ IF t = OwnerO THEN
           /\ lastOp' = [Op("_register", StoreO, t) EXCEPT !.threw = TRUE,
                                                          !.error = SelfError]
           /\ UNCHANGED <<toDispose, isDisposed>>
       ELSE StoreAdd(StoreO, t, "_register")
    /\ steps' = steps + 1
    /\ UNCHANGED <<DISABLE_DISPOSED_WARNING, disposeCalls, fnCalls, hist, threwOnDispose,
                   others>>

\* Mutant of DisposableDispose: it calls this._store.clear().
DisposableDisposeClearOnly(thr) ==
    /\ steps < MaxOps
    /\ StoreClear(StoreO, thr, "Disposable.dispose")
    /\ steps' = steps + 1
    /\ UNCHANGED <<isDisposed, DISABLE_DISPOSED_WARNING, hist, threwOnDispose, others>>

\* o.dispose()
DisposableDispose(thr) ==
    /\ steps < MaxOps
    /\ StoreDispose(StoreO, thr, "Disposable.dispose")
    /\ threwOnDispose' = IF isDisposed[StoreO] THEN threwOnDispose
                         ELSE [threwOnDispose EXCEPT ![StoreO] = lastOp'.threw]
    /\ steps' = steps + 1
    /\ UNCHANGED <<DISABLE_DISPOSED_WARNING, hist, others>>

\* DisposableStore.DISABLE_DISPOSED_WARNING = b, the static flag being
\* public and writable.
SetDisableDisposedWarning(b) ==
    /\ b # DISABLE_DISPOSED_WARNING
    /\ DISABLE_DISPOSED_WARNING' = b
    /\ UNCHANGED <<toDispose, isDisposed, disposeCalls, fnCalls, lastOp, hist, steps,
                   threwOnDispose, others>>

Next ==
    \/ \E t \in StoreUnits \cup {Undef, StoreC} : Add(t)
    \/ \E thr \in SUBSET FnsUnder(toDispose[StoreC]) : Clear(thr)
    \/ \E thr \in SUBSET FnsUnder(toDispose[StoreC]) : Dispose(thr)
    \/ \E t \in StoreUnits \cup {Undef, OwnerO} : Register(t)
    \/ \E thr \in SUBSET FnsUnder(toDispose[StoreO]) : DisposableDispose(thr)
    \/ \E b \in BOOLEAN : SetDisableDisposedWarning(b)

Spec == Init /\ [][Next]_vars

\* ------------------------------------------------ dispose(arg), u.dispose()
\* The arguments of dispose(arg): undefined, one unit, an array of distinct
\* units in any order, or another iterable of them; the shorter arrays and
\* iterables may hold an undefined element.
Args ==
    {[kind |-> "undefined", elems |-> <<>>]}
    \cup {[kind |-> "single", elems |-> <<u>>] : u \in Units}
    \cup {[kind |-> kd, elems |-> e] :
            kd \in {"array", "iterator"},
            e \in InjSeqs(FnUnits, Cardinality(FnUnits))
                  \cup InjSeqs(FnUnits \cup {Undef}, Cardinality(FnUnits) - 1)}

\* Mutant of returned: the argument is returned whatever its type.
returnedArg(kind) == "arg"

\* What dispose(arg) returns for an iterable arg:
\* Array.isArray(arg) ? [] : arg.
returned(kind) == IF kind = "array" THEN "empty array" ELSE "arg"

\* dispose(arg)
DisposeFn(arg, thr) ==
    /\ steps < MaxFnOps
    /\ steps' = steps + 1
    /\ UNCHANGED <<toDispose, isDisposed, DISABLE_DISPOSED_WARNING, hist, threwOnDispose,
                   others>>
    /\ IF arg.kind \in {"array", "iterator"} THEN
           LET r == disposeIterable(arg.elems, thr) IN
           /\ disposeCalls' = CountCalls(r.calls)
           /\ fnCalls' = CountFns(r.fns)
           /\ lastOp' = [NoOp EXCEPT !.op = "dispose(arg)", !.kind = arg.kind,
                                     !.arg = "arg", !.input = arg.elems,
                                     !.released = r.top, !.calls = r.calls,
                                     !.thr = thr,
                                     !.threw = (r.error # NoError),
                                     !.error = r.error,
                                     !.ret = IF r.error # NoError THEN "none"
                                             ELSE returned(arg.kind)]
       ELSE IF arg.kind = "single" THEN
           LET r == unitDispose(arg.elems[1], thr) IN
           /\ disposeCalls' = CountCalls(r.calls)
           /\ fnCalls' = CountFns(r.fns)
           /\ lastOp' = [NoOp EXCEPT !.op = "dispose(arg)", !.kind = arg.kind,
                                     !.arg = "arg", !.input = arg.elems,
                                     !.released = <<arg.elems[1]>>, !.calls = r.calls,
                                     !.thr = thr,
                                     !.threw = (r.error # NoError),
                                     !.error = r.error,
                                     !.ret = IF r.error # NoError THEN "none"
                                             ELSE "arg"]
       ELSE
           /\ lastOp' = [NoOp EXCEPT !.op = "dispose(arg)", !.kind = arg.kind,
                                     !.arg = Undef, !.ret = Undef]
           /\ UNCHANGED <<disposeCalls, fnCalls>>

\* u.dispose(), called on the unit directly
UnitDispose(u, thr) ==
    /\ steps < MaxFnOps
    /\ steps' = steps + 1
    /\ UNCHANGED <<toDispose, isDisposed, DISABLE_DISPOSED_WARNING, hist, threwOnDispose,
                   others>>
    /\ LET r == unitDispose(u, thr) IN
       /\ disposeCalls' = CountCalls(r.calls)
       /\ fnCalls' = CountFns(r.fns)
       /\ lastOp' = [NoOp EXCEPT !.op = "unit.dispose", !.arg = u, !.input = <<u>>,
                                 !.released = <<u>>, !.calls = r.calls,
                                 !.thr = thr,
                                 !.threw = (r.error # NoError),
                                 !.error = r.error]

NextFn ==
    \/ \E arg \in Args : \E thr \in SUBSET FnsUnder(arg.elems) : DisposeFn(arg, thr)
    \/ \E u \in Units : \E thr \in SUBSET FnsUnder(<<u>>) : UnitDispose(u, thr)

SpecFn == Init /\ [][NextFn]_vars

\* ----------------------------------------------- re-entrant teardowns on c
\* What the teardown of a unit may call on the store c while it runs:
\* nothing, c.add(v) for a unit v, or c.dispose().
Behaviours ==
    {Plain, [call |-> "dispose", arg |-> "none"]}
    \cup {[call |-> "add", arg |-> v] : v \in FnUnits}

\* An entry of the Set's list that clear() has emptied: an iterator that is
\* still running skips it, and later additions are appended after it.
Empty == "empty"
Live(entries) == SelectSeq(entries, LAMBDA d : d # Empty)

\* The store c while one call runs: the Set's entry list, the flag, the
\* dispose() calls made on units so far and the calls teardowns made on c.
Running(entries, disposed) ==
    [entries |-> entries, disposed |-> disposed, calls |-> <<>>, nested |-> <<>>]

RECURSIVE rRelease(_, _), rIter(_, _), rClear(_), rDispose(_)

\* Mutant of rAdd: _isDisposed is not tested, the unit is always inserted.
rAddIgnoresDisposed(v, st) ==
    IF v \in Range(st.entries) THEN st
    ELSE [st EXCEPT !.entries = Append(@, v)]

\* c.add(v) called by a teardown: v is a unit, never undefined nor c.
rAdd(v, st) ==
    IF st.disposed THEN st
    ELSE IF v \in Range(st.entries) THEN st
    ELSE [st EXCEPT !.entries = Append(@, v)]

\* u.dispose(): the teardown of u runs, and makes its call on c.
rRelease(u, st) ==
    LET st1 == [st EXCEPT !.calls = Append(@, u)]
        b == behaviour[u]
        Event(after) ==
            [call |-> b.call, arg |-> b.arg, by |-> u,
             disposedThen |-> st1.disposed,
             effect |-> after # st1]
    IN  IF b.call = "add" THEN
            LET st2 == rAdd(b.arg, st1) IN
            [st2 EXCEPT !.nested = Append(@, Event(st2))]
        ELSE IF b.call = "dispose" THEN
            LET st2 == rDispose(st1) IN
            [st2 EXCEPT !.nested = Append(@, Event(st2))]
        ELSE st1

\* The for loop of dispose() over this._toDispose.values(): the iterator is
\* live, an entry appended while it runs is visited too.
rIter(st, i) ==
    IF i > Len(st.entries) THEN st
    ELSE IF st.entries[i] = Empty THEN rIter(st, i + 1)
    ELSE rIter(rRelease(st.entries[i], st), i + 1)

\* Mutant of rClear: the loop runs over a copy of the Set taken on entry.
rClearCopy(st) ==
    LET RECURSIVE rIterCopy(_, _, _)
        rIterCopy(s, i, n) ==
            IF i > n THEN s
            ELSE IF s.entries[i] = Empty THEN rIterCopy(s, i + 1, n)
            ELSE rIterCopy(rRelease(s.entries[i], s), i + 1, n)
        r == rIterCopy(st, 1, Len(st.entries))
    IN  [r EXCEPT !.entries = [i \in 1..Len(r.entries) |-> Empty]]

\* c.clear() (no teardown throws here): the loop, then this._toDispose.clear().
rClear(st) ==
    LET r == rIter(st, 1) IN
    [r EXCEPT !.entries = [i \in 1..Len(r.entries) |-> Empty]]

\* Mutant of rDispose: the test of _isDisposed is inverted.
rDisposeInvertedGuard(st) ==
    IF ~st.disposed THEN st
    ELSE rClear([st EXCEPT !.disposed = TRUE])

\* c.dispose()
rDispose(st) ==
    IF st.disposed THEN st
    ELSE rClear([st EXCEPT !.disposed = TRUE])

\* The state after a call on c that ran as r.
ReentrantDone(op, r) ==
    /\ toDispose' = [toDispose EXCEPT ![StoreC] = Live(r.entries)]
    /\ isDisposed' = [isDisposed EXCEPT ![StoreC] = r.disposed]
    /\ disposeCalls' = CountCalls(r.calls)
    /\ fnCalls' = CountFns([i \in 1..Len(r.calls) |-> FnOf(r.calls[i])])
    /\ lastOp' = [Op(op, StoreC, "none") EXCEPT !.input = toDispose[StoreC],
                                                !.released = r.calls,
                                                !.calls = r.calls]
    /\ nested' = r.nested
    /\ steps' = steps + 1
    /\ UNCHANGED <<DISABLE_DISPOSED_WARNING, threwOnDispose, behaviour, rest>>

\* c.add(t), called from outside any teardown
ReentrantAdd(t) ==
    /\ steps < MaxReentrantOps
    /\ Add(t)

\* c.clear(), called from outside any teardown
ReentrantClear ==
    /\ steps < MaxReentrantOps
    /\ LET r == rClear(Running(toDispose[StoreC], isDisposed[StoreC])) IN
       /\ ReentrantDone("clear", r)
       /\ hist' = [cleared |-> TRUE, gone |-> Range(r.calls), added |-> {}]

\* c.dispose(), called from outside any teardown
ReentrantDispose ==
    /\ steps < MaxReentrantOps
    /\ LET r == rDispose(Running(toDispose[StoreC], isDisposed[StoreC])) IN
       /\ ReentrantDone("dispose", r)
       /\ UNCHANGED hist

InitReentrant ==
    /\ InitStore
    /\ behaviour \in [FnUnits -> Behaviours]
    /\ nested = <<>>
    /\ InitRest

NextReentrant ==
    \/ \E t \in FnUnits : ReentrantAdd(t)
    \/ ReentrantClear
    \/ ReentrantDispose

SpecReentrant == InitReentrant /\ [][NextReentrant]_vars

\* ------------------------------------------------------- leak tracking hook
\* The value the module sets TRACK_DISPOSABLES to.
TRACK_DISPOSABLES == FALSE
\* The units of the tracking scenarios.
TrackUnits == {"u1", "u2"}

\* Mutant of trackDisposable: the tracking path ends without `return x`.
trackDisposableNoReturn(x, track) ==
    IF ~track THEN [ret |-> x, scheduled |-> FALSE]
    ELSE [ret |-> Undef, scheduled |-> TRUE]

\* trackDisposable(x) in a build whose TRACK_DISPOSABLES is track: x is
\* returned, and with tracking on a check of x is scheduled first.
trackDisposable(x, track) ==
    IF ~track THEN [ret |-> x, scheduled |-> FALSE]
    ELSE [ret |-> x, scheduled |-> TRUE]

\* const d = toDisposable(fn)
MakeUnit(b, u, track) ==
    LET self == trackDisposable(u, track) IN
    [b EXCEPT !.handle[u] = self.ret,
              !.pending = IF self.scheduled THEN @ \cup {u} ELSE @]

\* store.add(d) for the handle d of u; a handle is never the store.
BuildAdd(b, u) ==
    LET t == b.handle[u] IN
    IF t = Undef THEN b
    ELSE IF b.isDisposed THEN b
    ELSE [b EXCEPT !.toDispose = SetAdd(@, t)]

Raise(b, r) ==
    [b EXCEPT !.released = @ \o r.calls,
              !.errors = IF r.error # NoError THEN Append(@, r.error) ELSE @]

\* store.clear()
BuildClear(b, thr) ==
    [Raise(b, disposeIterable(b.toDispose, thr)) EXCEPT !.toDispose = <<>>]

\* store.dispose()
BuildDispose(b, thr) ==
    IF b.isDisposed THEN b
    ELSE BuildClear([b EXCEPT !.isDisposed = TRUE], thr)

\* d.dispose() for the handle d of u: markTracked(self) is commented out,
\* only fn() runs. Calling dispose on undefined is a TypeError.
BuildRelease(b, u, thr) ==
    IF b.handle[u] = Undef
    THEN [b EXCEPT !.errors = Append(@, [name |-> "TypeError", id |-> u, errors |-> <<>>])]
    ELSE Raise(b, unitDispose(b.handle[u], thr))

\* The callback of the setTimeout of trackDisposable(x) runs: the stack is
\* logged unless x carries __is_disposable_tracked__.
CheckFires(b, u) ==
    IF u \notin b.pending THEN b
    ELSE [b EXCEPT !.pending = @ \ {u},
                   !.reports = IF u \in b.marked THEN @
                               ELSE Append(@, [unit |-> u, released |-> u \in Range(b.released)])]

\* The same call in both builds.
TrackStep(after) ==
    /\ build' = after
    /\ steps' = steps + 1
    /\ UNCHANGED <<toDispose, isDisposed, DISABLE_DISPOSED_WARNING, disposeCalls,
                   fnCalls, lastOp, hist, threwOnDispose, reentrantVars, timerVars,
                   searchVars, idleVars>>

Made(u) == build[TRACK_DISPOSABLES].handle[u] # NotMade

TrackMake(u) ==
    /\ steps < MaxTrackOps
    /\ ~Made(u)
    /\ TrackStep([track \in BOOLEAN |-> MakeUnit(build[track], u, track)])

TrackAdd(u) ==
    /\ steps < MaxTrackOps
    /\ Made(u)
    /\ TrackStep([track \in BOOLEAN |-> BuildAdd(build[track], u)])

TrackClear(thr) ==
    /\ steps < MaxTrackOps
    /\ TrackStep([track \in BOOLEAN |-> BuildClear(build[track], thr)])

TrackDispose(thr) ==
    /\ steps < MaxTrackOps
    /\ TrackStep([track \in BOOLEAN |-> BuildDispose(build[track], thr)])

TrackRelease(u, thr) ==
    /\ steps < MaxTrackOps
    /\ Made(u)
    /\ TrackStep([track \in BOOLEAN |-> BuildRelease(build[track], u, thr)])

\* 3000 ms after toDisposable() made u, in the builds that scheduled a check.
TrackCheck(u) ==
    /\ \E track \in BOOLEAN : u \in build[track].pending
    /\ build' = [track \in BOOLEAN |-> CheckFires(build[track], u)]
    /\ UNCHANGED <<toDispose, isDisposed, DISABLE_DISPOSED_WARNING, disposeCalls,
                   fnCalls, lastOp, hist, steps, threwOnDispose, reentrantVars,
                   timerVars, searchVars, idleVars>>

NextTracking ==
    \/ \E u \in TrackUnits : TrackMake(u) \/ TrackAdd(u) \/ TrackCheck(u)
    \/ \E thr \in SUBSET {FnOf(u) : u \in TrackUnits} :
          \/ TrackClear(thr)
          \/ TrackDispose(thr)
          \/ \E u \in TrackUnits : TrackRelease(u, thr \cap {FnOf(u)})

SpecTracking == Init /\ [][NextTracking]_vars

\* ------------------------------------------------------------ TimeoutTimer
Runners == {"r1", "r2"}

\* The Timeout object of the n-th setTimeout call.
Timeout(n) == ToString(n)

\* The runners that call setIfNotSet(runner, timeout) on the timer, with
\* themselves as the runner, when they run.
Rearming == {"r2"}

\* The timeouts the host can be asked for: one by the constructor, one a
\* call, one a callback run.
Timeouts ==
    [id : {Timeout(n) : n \in 1..(MaxTimerOps + MaxFires + 1)}, runner : Runners]

\* setTimeout(callback, timeout) of the host: a new pending timeout; its
\* callback, when it runs, calls runner.
setTimeout(h, runner) ==
    [h EXCEPT !.made = @ + 1,
              !.pending = @ \cup {[id |-> Timeout(h.made + 1), runner |-> runner]}]

\* clearTimeout(token) of the host
clearTimeout(h, token) ==
    [h EXCEPT !.pending = {p \in @ : p.id # token},
              !.cleared = @ \cup {p.id : p \in {q \in h.pending : q.id = token}}]

\* Mutant of cancel: the token is forgotten, the host's timeout is not cleared.
cancelKeepTimeout(t, h) ==
    IF t.token # Undef
    THEN [t |-> [t EXCEPT !.token = Undef], h |-> h]
    ELSE [t |-> t, h |-> h]

\* cancel()
cancel(t, h) ==
    IF t.token # Undef
    THEN [t |-> [t EXCEPT !.token = Undef], h |-> clearTimeout(h, t.token)]
    ELSE [t |-> t, h |-> h]

\* this._token = setTimeout(() => { this._token = undefined; runner(); }, timeout)
schedule(t, h, runner) ==
    LET h1 == setTimeout(h, runner) IN
    [t |-> [t EXCEPT !.token = Timeout(h1.made)], h |-> h1]

TimerStep(op, runner, r, threw) ==
    /\ timer' = r.t
    /\ timeouts' = r.h
    /\ timerOp' = [op |-> op, runner |-> runner, threw |-> threw]
    /\ steps' = steps + 1
    /\ UNCHANGED <<toDispose, isDisposed, DISABLE_DISPOSED_WARNING, disposeCalls,
                   fnCalls, lastOp, hist, threwOnDispose, reentrantVars, trackingVars,
                   searchVars, idleVars>>

Same == [t |-> timer, h |-> timeouts]

\* Mutant of TimerDispose: _isDisposed is not set.
TimerDisposeCancelOnly ==
    /\ steps < MaxTimerOps
    /\ TimerStep("dispose", "none", cancel(timer, timeouts), FALSE)

\* dispose()
TimerDispose ==
    /\ steps < MaxTimerOps
    /\ LET c == cancel(timer, timeouts) IN
       TimerStep("dispose", "none", [c EXCEPT !.t.isDisposed = TRUE], FALSE)

\* cancel()
TimerCancel ==
    /\ steps < MaxTimerOps
    /\ TimerStep("cancel", "none", cancel(timer, timeouts), FALSE)

\* cancelAndSet(runner, timeout)
TimerCancelAndSet(runner) ==
    /\ steps < MaxTimerOps
    /\ IF timer.isDisposed
       THEN TimerStep("cancelAndSet", runner, Same, TRUE)
       ELSE LET c == cancel(timer, timeouts) IN
            TimerStep("cancelAndSet", runner, schedule(c.t, c.h, runner), FALSE)

\* setIfNotSet(runner, timeout)
TimerSetIfNotSet(runner) ==
    /\ steps < MaxTimerOps
    /\ IF timer.isDisposed
       THEN TimerStep("setIfNotSet", runner, Same, TRUE)
       ELSE IF timer.token # Undef
       THEN TimerStep("setIfNotSet", runner, Same, FALSE)
       ELSE TimerStep("setIfNotSet", runner, schedule(timer, timeouts, runner), FALSE)

\* runner(): a re-arming runner calls setIfNotSet on the timer.
run(t, h, runner) ==
    IF runner \notin Rearming THEN [t |-> t, h |-> h]
    ELSE IF t.isDisposed THEN [t |-> t, h |-> h]
    ELSE IF t.token # Undef THEN [t |-> t, h |-> h]
    ELSE schedule(t, h, runner)

\* Mutant of TimerFire: runner() is called before this._token is cleared.
TimerFireRunnerFirst(p) ==
    /\ p \in timeouts.pending
    /\ p.runner \in Rearming => Len(timeouts.ran) < MaxFires
    /\ LET r == run(timer,
                    [timeouts EXCEPT !.pending = @ \ {p}, !.ran = Append(@, p)],
                    p.runner)
       IN  /\ timer' = [r.t EXCEPT !.token = Undef]
           /\ timeouts' = r.h
    /\ UNCHANGED <<toDispose, isDisposed, DISABLE_DISPOSED_WARNING, disposeCalls,
                   fnCalls, lastOp, hist, steps, threwOnDispose, reentrantVars,
                   trackingVars, timerOp, searchVars, idleVars>>

\* The delay of a pending timeout has elapsed, the host runs its callback:
\* this._token = undefined; runner().
TimerFire(p) ==
    /\ p \in timeouts.pending
    /\ p.runner \in Rearming => Len(timeouts.ran) < MaxFires
    /\ LET r == run([timer EXCEPT !.token = Undef],
                    [timeouts EXCEPT !.pending = @ \ {p}, !.ran = Append(@, p)],
                    p.runner)
       IN  /\ timer' = r.t
           /\ timeouts' = r.h
    /\ UNCHANGED <<toDispose, isDisposed, DISABLE_DISPOSED_WARNING, disposeCalls,
                   fnCalls, lastOp, hist, steps, threwOnDispose, reentrantVars,
                   trackingVars, timerOp, searchVars, idleVars>>

\* new TimeoutTimer() or new TimeoutTimer(runner, timeout)
InitTimerAny ==
    \/ InitTimer
    \/ \E runner \in Runners :
          LET r == schedule([token |-> Undef, isDisposed |-> FALSE],
                            [made |-> 0, pending |-> {}, cleared |-> {}, ran |-> <<>>],
                            runner) IN
          /\ timer = r.t
          /\ timeouts = r.h
          /\ timerOp = NoTimerOp

InitTimerSpec ==
    InitStore /\ InitPlain /\ InitTracking /\ InitTimerAny /\ InitSearch /\ InitIdle

NextTimer ==
    \/ TimerDispose
    \/ TimerCancel
    \/ \E runner \in Runners : TimerCancelAndSet(runner) \/ TimerSetIfNotSet(runner)
    \/ \E p \in Timeouts : TimerFire(p)

SpecTimer == InitTimerSpec /\ [][NextTimer]_vars

\* ----------------------------------------------------------- binarySearch2
\* A JavaScript number that holds an integer, as hi * 2^30 + lo with
\* 0 <= lo < 2^30: the values of low, high and mid go beyond 2^31.
Unit == 2^30
Norm(hi, lo) == [hi |-> hi + (lo \div Unit), lo |-> lo % Unit]
Num(k) == Norm(0, k)
Plus(a, b) == Norm(a.hi + b.hi, a.lo + b.lo)
Minus(a) == Norm(-a.hi, -a.lo)
Less(a, b) == a.hi < b.hi \/ (a.hi = b.hi /\ a.lo < b.lo)
LessEq(a, b) == a = b \/ Less(a, b)

\* a / 2 with the fraction dropped, as `| 0` drops it (towards zero).
Half(a) ==
    LET v == IF a.hi < 0 THEN Plus(a, Num(1)) ELSE a IN
    Norm(v.hi \div 2, (v.hi % 2) * (Unit \div 2) + (v.lo \div 2))

\* x | 0 for an integer x: x modulo 2^32, in -2^31 .. 2^31 - 1.
ToInt32(a) ==
    LET h == a.hi % 4 IN
    [hi |-> IF h >= 2 THEN h - 4 ELSE h, lo |-> a.lo]

\* compareToKey(i) over a collection of `length` elements sorted as the key
\* sees them: the first `before` elements precede the key, the next `equal`
\* elements equal it, the others follow it. Outside 0 .. length - 1 the
\* collection has no element and the callback's answer is whatever it
\* makes of that: c.outside.
compareToKey(c, i) ==
    IF Less(i, Num(0)) \/ LessEq(c.length, i) THEN c.outside
    ELSE IF Less(i, c.before) THEN -1
    ELSE IF Less(i, Plus(c.before, c.equal)) THEN 0
    ELSE 1

\* The collections searched: short ones, and long ones around 2^31 and 2^32
\* with the key near an end or in the middle.
ShortLengths == {Num(k) : k \in 0..MaxSearchLen}
LongLengths == {Norm(h, k) : h \in {2, 4}, k \in {-1, 0, 1}}
Positions(length) ==
    IF length \in ShortLengths THEN {Num(k) : k \in 0..length.lo}
    ELSE {Num(0), Num(1), Half(length), Plus(length, Num(-1)), length}
Collections ==
    {c \in [length : ShortLengths \cup LongLengths,
            before : UNION {Positions(l) : l \in ShortLengths \cup LongLengths},
            equal : {Num(0), Num(1)},
            outside : {-1, 0, 1}] :
        /\ c.before \in Positions(c.length)
        /\ LessEq(Plus(c.before, c.equal), c.length)}

\* binarySearch2(length, compareToKey) is called: low = 0, high = length - 1.
InitSearchAny ==
    \E c \in Collections :
        search = [pc |-> "loop", c |-> c, low |-> Num(0),
                  high |-> Plus(c.length, Num(-1)), probes |-> 0,
                  result |-> Num(0)]

UnchangedBySearch ==
    UNCHANGED <<toDispose, isDisposed, DISABLE_DISPOSED_WARNING, disposeCalls,
                fnCalls, lastOp, hist, steps, threwOnDispose, reentrantVars,
                trackingVars, timerVars, idleVars>>

\* One iteration of the while loop.
SearchProbe ==
    /\ search.pc = "loop"
    /\ search.probes < MaxProbes
    /\ LessEq(search.low, search.high)
    /\ LET mid == ToInt32(Half(Plus(search.low, search.high)))
           comp == compareToKey(search.c, mid)
       IN  search' =
             IF comp < 0 THEN [search EXCEPT !.low = Plus(mid, Num(1)), !.probes = @ + 1]
             ELSE IF comp > 0 THEN [search EXCEPT !.high = Plus(mid, Num(-1)), !.probes = @ + 1]
             ELSE [search EXCEPT !.pc = "done", !.result = mid, !.probes = @ + 1]
    /\ UnchangedBySearch

\* The loop ends with low > high: return -(low + 1).
SearchReturn ==
    /\ search.pc = "loop"
    /\ ~LessEq(search.low, search.high)
    /\ search' = [search EXCEPT !.pc = "done",
                                !.result = Minus(Plus(search.low, Num(1)))]
    /\ UnchangedBySearch

InitSearchSpec ==
    InitStore /\ InitPlain /\ InitTracking /\ InitTimer /\ InitSearchAny /\ InitIdle

NextSearch ==
    \/ SearchProbe
    \/ SearchReturn

SpecSearch == InitSearchSpec /\ [][NextSearch]_vars

\* ------------------------------------------------------- AbstractIdleValue
\* What executor() does when it is called: it returns a value or throws one.
\* JavaScript throws any value, a falsy one such as undefined or 0 included.
Returned == {"v", Undef}
Thrown == {"error", Undef, "0"}
Falsy == {Undef, "0"}
Executors ==
    [kind : {"return"}, what : Returned] \cup [kind : {"throw"}, what : Thrown]
NoRead == [kind |-> "none", what |-> "none"]

\* this._handle = _runWhenIdle(targetWindow, callback): the callback runs once
\* when the host is idle, unless the returned handle is disposed first.
runWhenIdle(i) == [i EXCEPT !.handle = "scheduled"]

\* this._handle.dispose(): cancels the callback if it has not run.
handleDispose(i) ==
    [i EXCEPT !.handle = IF @ = "scheduled" THEN "cancelled" ELSE @]

\* this._executor(): try { this._value = executor() } catch (err)
\* { this._error = err } finally { this._didRun = true }
executorRun(i) ==
    [i EXCEPT !.value = IF i.executor.kind = "return" THEN i.executor.what ELSE @,
              !.error = IF i.executor.kind = "throw" THEN i.executor.what ELSE @,
              !.didRun = TRUE,
              !.runs = @ + 1]

\* new IdleValue(targetWindow, executor)
InitIdleAny ==
    \E e \in Executors :
        idle = runWhenIdle([made |-> TRUE, executor |-> e, didRun |-> FALSE,
                            value |-> Undef, error |-> Undef, handle |-> "none",
                            runs |-> 0, read |-> NoRead, readBeforeRun |-> FALSE])

UnchangedByIdle ==
    UNCHANGED <<toDispose, isDisposed, DISABLE_DISPOSED_WARNING, disposeCalls,
                fnCalls, lastOp, hist, threwOnDispose, reentrantVars,
                trackingVars, timerVars, searchVars>>

\* The host is idle and runs the callback: () => this._executor().
IdleCallback ==
    /\ idle.handle = "scheduled"
    /\ idle' = executorRun([idle EXCEPT !.handle = "ran"])
    /\ UNCHANGED steps
    /\ UnchangedByIdle

\* get value()
IdleValue ==
    /\ steps < MaxIdleOps
    /\ LET i == IF ~idle.didRun THEN executorRun(handleDispose(idle)) ELSE idle IN
       idle' = [i EXCEPT !.read = IF i.error \notin Falsy
                                  THEN [kind |-> "throw", what |-> i.error]
                                  ELSE [kind |-> "return", what |-> i.value],
                         !.readBeforeRun = ~idle.didRun]
    /\ steps' = steps + 1
    /\ UnchangedByIdle

\* dispose()
IdleDispose ==
    /\ steps < MaxIdleOps
    /\ idle' = handleDispose(idle)
    /\ steps' = steps + 1
    /\ UnchangedByIdle

InitIdleSpec ==
    InitStore /\ InitPlain /\ InitTracking /\ InitTimer /\ InitSearch /\ InitIdleAny

NextIdle ==
    \/ IdleCallback
    \/ IdleValue
    \/ IdleDispose

SpecIdle == InitIdleSpec /\ [][NextIdle]_vars

\* ================================================================== claims
\* Whether the step just taken is a call (SetDisableDisposedWarning is not).
IsCall == steps' # steps
StoreOps == {"add", "clear", "dispose", "_register", "Disposable.dispose"}
DisposeOps == {"dispose", "Disposable.dispose"}
IsDefined(d) == d # Undef

\* C1: dispose() of a store that is not yet disposed calls dispose() once on
\* every unit the Set holds (a unit added twice is held once) and on no other
\* unit, and leaves the store disposed; a disposed store stays disposed, and
\* no add, clear or dispose call on it calls dispose() on any unit or makes
\* it hold one.
C1_Step ==
    /\ \A s \in Stores : isDisposed[s] => isDisposed'[s]
    /\ (IsCall /\ lastOp'.op \in DisposeOps /\ ~isDisposed[lastOp'.store]) =>
          /\ isDisposed'[lastOp'.store]
          /\ \A u \in StoreUnits :
                /\ Count(u, lastOp'.calls)
                      = (IF u \in Range(toDispose[lastOp'.store]) THEN 1 ELSE 0)
                /\ disposeCalls'[u] = disposeCalls[u] + Count(u, lastOp'.calls)
          /\ \A u \in StoreUnits : Count(u, toDispose[lastOp'.store]) <= 1
    /\ (IsCall /\ lastOp'.op \in StoreOps /\ isDisposed[lastOp'.store]) =>
          /\ disposeCalls' = disposeCalls
          /\ fnCalls' = fnCalls
          /\ toDispose'[lastOp'.store] = <<>>
C2_FnRunsOnce ==
    \A u \in FnUnits \cup PartUnits :
        disposeCalls[u] >= 1 => fnCalls[FnOf(u)] = 1

\* C3: releasing again a unit that was released before (the combined unit k
\* through k.dispose(), or any unit handed to a second dispose(...) call) runs
\* no teardown function.
C3_Step ==
    (/\ IsCall
     /\ lastOp'.op \in {"dispose(arg)", "unit.dispose"}
     /\ lastOp'.released # <<>>
     /\ \A u \in Range(lastOp'.released) : disposeCalls[u] >= 1)
    => fnCalls' = fnCalls
C3_SecondReleaseInert == [][C3_Step]_vars

\* C4: clear() releases every unit the store holds, once each, leaves the
\* Set empty and the disposed flag as it was (false for a store not yet
\* disposed); and the first dispose() of a store that was cleared releases
\* exactly the units added since that clear(), once each, hence none of the
\* units the clear() released unless it was added again.
C4_ClearThenReuse ==
    /\ (lastOp.op = "clear") =>
          /\ lastOp.released = lastOp.input
          /\ toDispose[StoreC] = <<>>
          /\ isDisposed[StoreC] = lastOp.wasDisposed
    /\ (lastOp.op = "dispose" /\ ~lastOp.wasDisposed /\ hist.cleared) =>
          \A u \in StoreUnits :
              Count(u, lastOp.calls) = (IF u \in hist.added THEN 1 ELSE 0)

\* C4 witness: c.clear() released some units, another unit was added
\* afterwards, and c.dispose() has just run.
C4_Witness ==
    /\ lastOp.op = "dispose" /\ ~lastOp.wasDisposed /\ hist.cleared
    /\ hist.gone # {} /\ hist.added # {} /\ hist.gone \cap hist.added = {}
    /\ Range(lastOp.released) = hist.added

\* C5: c.add(c) and o._register(o) throw the self-registration error in
\* every state, and leave every Set and every disposed flag as they were.
C5_Step ==
    (/\ IsCall
     /\ \/ lastOp'.op = "add" /\ lastOp'.arg = StoreC
        \/ lastOp'.op = "_register" /\ lastOp'.arg = OwnerO)
    => /\ lastOp'.threw
       /\ lastOp'.error = SelfError
       /\ toDispose' = toDispose
       /\ isDisposed' = isDisposed
C5_SelfRegistrationRejected == [][C5_Step]_vars

\* C5 witness: c.add(c) threw while c held a unit; the unit is still held.
C5_Witness ==
    /\ lastOp.op = "add" /\ lastOp.arg = StoreC /\ lastOp.threw
    /\ toDispose[StoreC] # <<>>

\* The errors the units released by the last call threw, in release order.
RECURSIVE FailuresOf(_, _)
FailuresOf(released, thr) ==
    IF released = <<>> THEN <<>>
    ELSE LET e == unitDispose(Head(released), thr).error IN
         (IF e # NoError THEN <<e>> ELSE <<>>) \o FailuresOf(Tail(released), thr)
LastFailures == FailuresOf(lastOp.released, lastOp.thr)
IsAggregate ==
    \/ lastOp.op \in {"clear", "dispose", "Disposable.dispose"}
    \/ lastOp.op = "dispose(arg)" /\ lastOp.kind \in {"array", "iterator"}

\* C6: a clear(), a dispose() of a store or a dispose(collection) returns
\* normally if no released unit threw, throws that very error if exactly one
\* did, and throws one MultiDisposeError listing every failure in release
\* order if two or more did.
C6_FailureAggregation ==
    IsAggregate =>
        /\ Len(LastFailures) = 0 => ~lastOp.threw /\ lastOp.error = NoError
        /\ Len(LastFailures) = 1 => lastOp.threw /\ lastOp.error = LastFailures[1]
        /\ Len(LastFailures) >= 2 =>
              /\ lastOp.threw
              /\ lastOp.error.name = "MultiDisposeError"
              /\ lastOp.error.errors = LastFailures

\* C6 witness: a store dispose() in which two of three units threw.
C6_Witness ==
    /\ lastOp.op = "dispose" /\ Len(lastOp.released) = 3
    /\ Len(LastFailures) = 2
    /\ lastOp.error.name = "MultiDisposeError"

\* C7: whichever units throw, every defined element of the collection is
\* released, in order, and every dispose() of the combined unit k calls
\* dispose() on both of its units.
C7_AllReleasedDespiteFailures ==
    /\ IsAggregate => lastOp.released = SelectSeq(lastOp.input, IsDefined)
    /\ \A i \in 1..Len(lastOp.calls) :
          lastOp.calls[i] \in CombinedUnits =>
              /\ i + Len(Parts(lastOp.calls[i])) <= Len(lastOp.calls)
              /\ \A j \in 1..Len(Parts(lastOp.calls[i])) :
                    lastOp.calls[i + j] = Parts(lastOp.calls[i])[j]

\* C7 witness: a clear() of three units, the first of them k with its first
\* part throwing, the second throwing too; all three and k's parts were
\* released.
C7_Witness ==
    /\ lastOp.op = "clear" /\ Len(lastOp.input) = 3
    /\ lastOp.input[1] = "k" /\ "g1" \in lastOp.thr
    /\ FnOf(lastOp.input[2]) \in lastOp.thr
    /\ Len(lastOp.released) = 3
    /\ Count("p2", lastOp.calls) = 1

\* C8: dispose(arr) on an array whose units do not throw releases each
\* element once, in array order, and returns an empty array; for another
\* iterable it returns the argument itself.
C8_ArrayDisposeResult ==
    (lastOp.op = "dispose(arg)" /\ lastOp.kind \in {"array", "iterator"}
        /\ lastOp.thr = {}) =>
        /\ ~lastOp.threw
        /\ lastOp.calls = SelectSeq(lastOp.input, IsDefined)
        /\ lastOp.ret = (IF lastOp.kind = "array" THEN "empty array" ELSE "arg")

\* C8 witness: dispose([u2, u3, u1]) returned an empty array.
C8_Witness ==
    /\ lastOp.op = "dispose(arg)" /\ lastOp.kind = "array"
    /\ lastOp.input = <<"u2", "u3", "u1">> /\ lastOp.thr = {}
    /\ lastOp.ret = "empty array"

\* Whether the last call reached DisposableStore.add with a unit, on a store
\* that was already disposed.
AddAfterDisposal ==
    /\ lastOp.op \in {"add", "_register"}
    /\ lastOp.wasDisposed
    /\ lastOp.arg \in StoreUnits

\* C9: an add(u) on a disposed store that returns normally has released u
\* or left it held by the store.
C9_PostDisposalAddReleases ==
    (AddAfterDisposal /\ ~lastOp.threw) =>
        \/ lastOp.arg \in Range(lastOp.calls)
        \/ lastOp.arg \in Range(toDispose[lastOp.store])

C10_Step ==
    (/\ IsCall
     /\ lastOp'.op \in {"add", "_register"}
     /\ lastOp'.arg \in StoreUnits
     /\ isDisposed[lastOp'.store])
    => /\ ~lastOp'.threw
       /\ lastOp'.ret = lastOp'.arg
       /\ lastOp'.warned = ~DISABLE_DISPOSED_WARNING
C12_Step ==
    (IsCall /\ lastOp'.op = "Disposable.dispose") =>
        IF isDisposed[StoreO]
        THEN /\ lastOp'.calls = <<>>
             /\ disposeCalls' = disposeCalls
             /\ fnCalls' = fnCalls
             /\ ~lastOp'.threw
             /\ toDispose' = toDispose
             /\ isDisposed' = isDisposed
        ELSE /\ \A u \in StoreUnits :
                   /\ Count(u, lastOp'.calls)
                         = (IF u \in Range(toDispose[StoreO]) THEN 1 ELSE 0)
                   /\ disposeCalls'[u] = disposeCalls[u] + Count(u, lastOp'.calls)
             /\ toDispose'[StoreO] = <<>>
             /\ isDisposed'[StoreO]
C12_DisposableDisposeRepeatable == [][C12_Step]_vars

\* C12 witness: u1 was registered with o only, o.dispose() released it, and
\* a second o.dispose() has just returned with u1 still released once.
C12_Witness ==
    /\ lastOp.op = "Disposable.dispose" /\ lastOp.wasDisposed
    /\ disposeCalls["u1"] = 1 /\ fnCalls["f1"] = 1
    /\ ~hist.cleared /\ ~isDisposed[StoreC]

\* C18: after clear() or dispose(), whether it returned or threw, the store
\* holds nothing; after dispose(), whether it returned or threw, the store
\* is disposed; and dispose() on a disposed store releases nothing and
\* throws nothing.
C18_Step ==
    (IsCall /\ lastOp'.op \in {"clear"} \cup DisposeOps) =>
        /\ toDispose'[lastOp'.store] = <<>>
        /\ lastOp'.op \in DisposeOps => isDisposed'[lastOp'.store]
        /\ (lastOp'.op \in DisposeOps /\ isDisposed[lastOp'.store]) =>
              /\ lastOp'.calls = <<>>
              /\ ~lastOp'.threw
              /\ disposeCalls' = disposeCalls
              /\ fnCalls' = fnCalls
C18_NoHalfTornDown == [][C18_Step]_vars

\* C18 witness: c.dispose() threw, and a second c.dispose() has just
\* returned normally, with c disposed and empty.
C18_Witness ==
    /\ lastOp.op = "dispose" /\ lastOp.wasDisposed /\ ~lastOp.threw
    /\ threwOnDispose[StoreC]
    /\ isDisposed[StoreC] /\ toDispose[StoreC] = <<>>

\* Calls that teardowns made on c while the last call on c ran.
NestedCalls(call) == {i \in 1..Len(nested) : nested[i].call = call}
FirstDispose == lastOp.op = "dispose" /\ ~lastOp.wasDisposed

\* C11: dispose() sets the flag before it releases anything, so c.add(v) made
\* by a unit's teardown while dispose() runs finds the store disposed: v is
\* not inserted, it is not released by this dispose(), and the store holds no
\* unit once dispose() has returned.
C11_ReentrantAddDuringDispose ==
    FirstDispose =>
        /\ \A i \in NestedCalls("add") :
              /\ nested[i].disposedThen
              /\ ~nested[i].effect
        /\ Range(lastOp.calls) \subseteq Range(lastOp.input)
        /\ toDispose[StoreC] = <<>>
        /\ isDisposed[StoreC]
\* A first dispose() during which a teardown added a unit the store did not hold.
C11_Witness ==
    /\ FirstDispose
    /\ \E i \in NestedCalls("add") :
          /\ nested[i].arg \notin Range(lastOp.input)
          /\ nested[i].by \in Range(lastOp.input)
    /\ toDispose[StoreC] = <<>>

\* C19: when a unit's teardown, run by clear() on a store that is not
\* disposed, calls c.add(v), v has been released by the time clear() returns
\* and the store is empty.
C19_ReentrantAddDuringClear ==
    lastOp.op = "clear" =>
        /\ \A i \in NestedCalls("add") :
              ~nested[i].disposedThen => nested[i].arg \in Range(lastOp.calls)
        /\ toDispose[StoreC] = <<>>
\* A clear() during which a teardown added a unit the store did not hold,
\* and that unit was released after the unit that added it.
C19_Witness ==
    /\ lastOp.op = "clear" /\ ~lastOp.wasDisposed
    /\ \E i \in NestedCalls("add") :
          /\ ~nested[i].disposedThen /\ nested[i].effect
          /\ nested[i].arg \notin Range(lastOp.input)
          /\ \E j, k \in 1..Len(lastOp.calls) :
                /\ j < k
                /\ lastOp.calls[j] = nested[i].by
                /\ lastOp.calls[k] = nested[i].arg
    /\ toDispose[StoreC] = <<>>

\* C20: when a unit's teardown, run by dispose(), calls c.dispose(), the
\* nested call changes nothing, and dispose() releases every unit the store
\* held exactly once.
C20_ReentrantDispose ==
    FirstDispose =>
        /\ \A i \in NestedCalls("dispose") :
              /\ nested[i].disposedThen
              /\ ~nested[i].effect
        /\ \A u \in FnUnits :
              Count(u, lastOp.calls) = (IF u \in Range(lastOp.input) THEN 1 ELSE 0)
        /\ toDispose[StoreC] = <<>>
\* A first dispose() of a store holding two units, the first of which
\* called c.dispose() from its teardown.
C20_Witness ==
    /\ FirstDispose
    /\ Len(lastOp.input) >= 2
    /\ \E i \in NestedCalls("dispose") : nested[i].by = lastOp.input[1]
    /\ Len(lastOp.calls) = Len(lastOp.input)

\* The build of the module with leak tracking enabled.
Tracking == build[TRUE]

\* C13: with leak tracking enabled, a unit is reported as leaked only if it
\* had not been released when its delayed check fired: the check of a unit
\* released before the delay elapsed is cancelled and reports nothing.
C13_ReportedOnlyIfUnreleased ==
    \A i \in 1..Len(Tracking.reports) : ~Tracking.reports[i].released

\* The releases and the errors of both builds, the checks and the reports of
\* the build without tracking.
SameDisposal ==
    /\ build[TRUE].released = build[FALSE].released
    /\ build[TRUE].errors = build[FALSE].errors
    /\ build[TRUE].toDispose = build[FALSE].toDispose
    /\ build[TRUE].isDisposed = build[FALSE].isDisposed

\* C14: the same calls release the same units in the same order and raise
\* the same errors whether TRACK_DISPOSABLES is set or not, and without
\* tracking no check is ever scheduled and nothing is ever reported.
C14_TrackingInert ==
    /\ SameDisposal
    /\ build[FALSE].pending = {}
    /\ build[FALSE].reports = <<>>
\* Units were released through the store and directly, one teardown threw,
\* and the tracking build has reported while the other has not.
C14_Witness ==
    /\ Len(build[TRUE].released) >= 2
    /\ build[TRUE].errors # <<>>
    /\ build[TRUE].isDisposed
    /\ build[TRUE].reports # <<>>
    /\ build[FALSE].reports = <<>>

IsTimerCall(op) == steps' # steps /\ timerOp'.op = op
RanIds == {timeouts.ran[i].id : i \in 1..Len(timeouts.ran)}

C15_Step ==
    /\ (IsTimerCall("setIfNotSet") /\ ~timer.isDisposed) =>
          /\ Cardinality(timeouts'.pending) = 1
          /\ timer.token # Undef =>
                /\ timeouts'.pending = timeouts.pending
                /\ timer' = timer
          /\ timer.token = Undef =>
                timeouts'.pending = {[id |-> timer'.token, runner |-> timerOp'.runner]}
    /\ (IsTimerCall("cancelAndSet") /\ ~timer.isDisposed) =>
          /\ timeouts'.pending = {[id |-> timer'.token, runner |-> timerOp'.runner]}
          /\ timer'.token \notin {p.id : p \in timeouts.pending}
          /\ {p.id : p \in timeouts.pending} \subseteq timeouts'.cleared
    /\ timeouts'.cleared \cap RanIds' = {}
\* C15: on a TimeoutTimer that is not disposed, setIfNotSet leaves exactly
\* one pending callback, the one already pending if there is one; cancelAndSet
\* leaves exactly one pending callback, that of its own runner, and the
\* callback it replaced never runs.
C15_OnePendingCallback == [][C15_Step]_vars
\* cancelAndSet replaced a pending callback, then the delay elapsed: only
\* the replacement ran.
C15_Witness ==
    /\ timeouts.made = 2
    /\ timeouts.cleared = {Timeout(1)}
    /\ Len(timeouts.ran) = 1 /\ timeouts.ran[1].id = Timeout(2)
    /\ timerOp.op = "cancelAndSet"
    /\ ~timer.isDisposed

C16_Step ==
    /\ IsTimerCall("dispose") =>
          /\ timeouts'.pending = {}
          /\ timer'.token = Undef
          /\ timer'.isDisposed
    /\ timer.isDisposed =>
          /\ timer'.isDisposed
          /\ timeouts'.pending = {}
          /\ timeouts'.ran = timeouts.ran
          /\ timeouts'.made = timeouts.made
          /\ (IsTimerCall("cancelAndSet") \/ IsTimerCall("setIfNotSet")) => timerOp'.threw
\* C16: dispose() cancels the pending callback and disables the timer for
\* good: no callback scheduled before it runs afterwards, and every later
\* cancelAndSet or setIfNotSet throws and schedules nothing.
C16_DisposeDisables == [][C16_Step]_vars
\* dispose() cancelled a pending callback, and a later scheduling call threw.
C16_Witness ==
    /\ timer.isDisposed
    /\ timeouts.cleared # {}
    /\ timerOp.op \in {"cancelAndSet", "setIfNotSet"}
    /\ timerOp.threw
    /\ timeouts.ran = <<>>

\* The result the documentation of binarySearch2 promises for a collection.
Found(c, r) ==
    /\ LessEq(Num(0), r) /\ Less(r, c.length)
    /\ LessEq(c.before, r) /\ Less(r, Plus(c.before, c.equal))
NotFound(c, r) ==
    /\ c.equal = Num(0)
    /\ r = Minus(Plus(c.before, Num(1)))

\* The number of times a range of `a` elements can be halved.
RECURSIVE Halvings(_)
Halvings(a) == IF a = Num(0) THEN 0 ELSE 1 + Halvings(Half(a))

\* C17: binarySearch2 over a collection sorted consistently with compareToKey
\* ends after at most one probe per halving of the range, and the result is an index whose element equals
\* the key or, when there is none, -(n + 1) for the insertion index n; for
\* every length, 0 included.
C17_SearchResult ==
    search.pc # "idle" =>
        /\ search.probes <= Halvings(search.c.length)
        /\ search.pc = "done" =>
              Found(search.c, search.result) \/ NotFound(search.c, search.result)

\* The token is set exactly when a timeout is pending, and then it is the
\* one pending timeout; no cleared timeout has run.
TimerInv ==
    /\ Cardinality(timeouts.pending) <= 1
    /\ timer.token # Undef <=> timeouts.pending # {}
    /\ \A p \in timeouts.pending : p.id = timer.token
    /\ timeouts.cleared \cap RanIds = {}
IsFire == Len(timeouts'.ran) = Len(timeouts.ran) + 1
C21_Step ==
    /\ TimerInv /\ TimerInv'
    /\ (IsFire /\ timeouts'.ran[Len(timeouts'.ran)].runner \in Rearming) =>
          /\ timer'.token # Undef
          /\ timer'.token \notin {p.id : p \in timeouts.pending}
          /\ timeouts'.pending =
                {[id |-> timer'.token, runner |-> timeouts'.ran[Len(timeouts'.ran)].runner]}
    /\ (IsFire /\ timeouts'.ran[Len(timeouts'.ran)].runner \notin Rearming) =>
          /\ timer'.token = Undef
          /\ timeouts'.pending = {}
    /\ (IsTimerCall("cancel") /\ timer.token = Undef) =>
          /\ timer' = timer
          /\ timeouts' = timeouts
\* C21: at most one timeout is pending for a TimeoutTimer and its token is
\* set exactly when one is; the token is cleared before the runner is called,
\* so a runner that calls setIfNotSet re-arms the timer; a timeout cleared by
\* cancel(), cancelAndSet() or dispose() never runs its runner; cancel() with
\* nothing pending changes nothing.
C21_TimerInvariants == [][C21_Step]_vars
\* A re-arming runner ran and its new timeout is pending, after an earlier
\* timeout was cleared.
C21_Witness ==
    /\ Len(timeouts.ran) >= 1
    /\ timeouts.ran[Len(timeouts.ran)].runner \in Rearming
    /\ timer.token # Undef
    /\ timeouts.pending = {[id |-> timer.token, runner |-> timeouts.ran[Len(timeouts.ran)].runner]}
    /\ timeouts.made >= 2
    /\ timer.token = Timeout(timeouts.made)
    /\ timeouts.ran[Len(timeouts.ran)].id = Timeout(timeouts.made - 1)
    /\ timeouts.cleared # {}

\* C22: whatever the order of the idle callback, the reads of value and
\* dispose(), the executor runs at most once; a read made before the callback
\* cancels the idle handle and runs the executor itself, a later read does
\* not run it again; every read returns what the executor returned or throws
\* what the executor threw.
C22_IdleValueOnce ==
    idle.made =>
        /\ idle.runs <= 1
        /\ idle.didRun <=> idle.runs = 1
        /\ idle.read # NoRead =>
              /\ idle.runs = 1
              /\ idle.handle # "scheduled"
              /\ idle.readBeforeRun => idle.handle = "cancelled"
              /\ idle.read = idle.executor

====
